---- MODULE Spec2Model ----
(***************************************************************************)
(* A model of src/lib/youtube.ts: the transcript pipeline                  *)
(* (fetchVideoTranscript), and the AI orchestration built on it            *)
(* (generateUserVideoSummary, generateQuickStartQuestions).                *)
(*                                                                         *)
(* Every `await` of the source is a suspend point, so every awaited call   *)
(* is one step of an invocation and invocations interleave between steps.  *)
(* An optional JavaScript value (null / undefined / a value) is the empty  *)
(* tuple or a one-element tuple; a string whose characters matter is a     *)
(* tuple of one-character strings.                                         *)
(***************************************************************************)
EXTENDS Integers, Sequences, FiniteSets, TLC

\* ------------------------------------------------------------------ bounds
\* Number of fetchVideoTranscript invocations.
MaxCalls == 2
\* Exceptions the collaborators may raise in one behaviour.
MaxFaults == 2

\* ------------------------------------------------------------ JS values
Null == <<>>
Some(x) == <<x>>
IsNull(o) == o = <<>>
Val(o) == o[1]

\* A JavaScript number that is either an integer <<n>> or NaN.
NaN == <<>>
Num(n) == <<n>>

Digit == <<"0", "1", "2", "3", "4", "5", "6", "7", "8", "9">>
DigitSet == {Digit[i] : i \in 1..10}
DigitOf(ch) == (CHOOSE i \in 1..10 : Digit[i] = ch) - 1

\* Code unit order of the characters a clock string is made of.
CharCode(ch) == IF ch \in DigitSet THEN 48 + DigitOf(ch) ELSE IF ch = ":" THEN 58 ELSE 0

RECURSIVE DigitsValue(_)
DigitsValue(s) ==
  IF s = <<>> THEN 0
  ELSE 10 * DigitsValue(SubSeq(s, 1, Len(s) - 1)) + DigitOf(s[Len(s)])

\* ToNumber of a string: a run of digits is its value ("" is 0), anything
\* else, a clock string with its colons included, is NaN.
StringToNumber(s) ==
  IF \A i \in 1..Len(s) : s[i] \in DigitSet THEN Num(DigitsValue(s)) ELSE NaN

\* x - y on numbers: NaN if either side is NaN.
NumberSubtract(x, y) == IF x = NaN \/ y = NaN THEN NaN ELSE Num(x[1] - y[1])

\* Lexical (code unit) order of two strings.
RECURSIVE StrLess(_, _)
StrLess(a, b) ==
  IF b = <<>> THEN FALSE
  ELSE IF a = <<>> THEN TRUE
  ELSE IF CharCode(a[1]) # CharCode(b[1]) THEN CharCode(a[1]) < CharCode(b[1])
  ELSE StrLess(Tail(a), Tail(b))

StrLeq(a, b) == a = b \/ StrLess(a, b)

\* ------------------------------------------------------------ time format
Pad2(n) == <<Digit[(n \div 10) + 1], Digit[(n % 10) + 1]>>

\* The clock string, had the pattern been 'hh:mm:ss' (the 12-hour clock).
format_12h(t) ==
  Pad2(IF ((t \div 3600) % 12) = 0 THEN 12 ELSE (t \div 3600) % 12)
    \o <<":">> \o Pad2((t \div 60) % 60) \o <<":">> \o Pad2(t % 60)

\* addSeconds(baseDate, t) followed by format(_, 'HH:mm:ss'): baseDate is local
\* midnight, HH is the hour of the day, so the clock wraps at 24 hours.
format(t) ==
  Pad2((t \div 3600) % 24) \o <<":">> \o Pad2((t \div 60) % 60) \o <<":">> \o Pad2(t % 60)

\* The decimal digits of a natural number.
RECURSIVE Decimal(_)
Decimal(n) == IF n < 10 THEN <<Digit[n + 1]>> ELSE Append(Decimal(n \div 10), Digit[(n % 10) + 1])

\* formatTime of lib/utils: the short m:ss form of an offset.
formatTime(t) == Decimal(t \div 60) \o <<":">> \o Pad2(t % 60)

\* ------------------------------------------------------------------ text
Includes(s, sub) ==
  \E i \in 1..(Len(s) - Len(sub) + 1) : SubSeq(s, i, i + Len(sub) - 1) = sub

Str_NA == <<"N", "/", "A">>
Str_segment == <<"s", "e", "g", "m", "e", "n", "t">>
Str_SegmentAt == <<"S", "e", "g", "m", "e", "n", "t", " ", "a", "t", " ">>
Str_Intro == <<"I", "n", "t", "r", "o">>
Str_Hi == <<"H", "i">>

\* ------------------------------------------------------- the environment
Users == {"u1", "u2"}
Videos == {"v1"}
Calls == 1..MaxCalls

\* What the transcript provider may answer: nothing, an empty list, or a list
\* of raw entries {text, offset, duration} (offset and duration may be missing).
RawEntry(t, o, d) == [text |-> t, offset |-> o, duration |-> d]
RawTranscripts ==
  { <<RawEntry(Str_Intro, Some(0), Some(5)), RawEntry(Str_NA, Some(5), Some(3))>>,
    <<RawEntry(Str_Hi, Some(7), Null)>> }
ProviderResults == {Null, Some(<<>>)} \cup {Some(t) : t \in RawTranscripts}

\* --------------------------------------------------------- normalization
\* Number(x || 0) of an optional non-negative number.
NumberOr0(o) == IF IsNull(o) THEN 0 ELSE Val(o)

\* lines 169-172, had the length test been <= 30.
isChapterStart_atMost30(item, index) ==
  /\ Len(item.text) <= 30
  /\ ~Includes(item.text, Str_segment)
  /\ item.text # Str_NA
  /\ (index = 0 \/ index % 10 = 0)

\* lines 169-172
isChapterStart(item, index) ==
  /\ Len(item.text) < 30
  /\ ~Includes(item.text, Str_segment)
  /\ item.text # Str_NA
  /\ (index = 0 \/ index % 10 = 0)

\* lines 159-180, had `end` been formatted from the duration alone.
NormalizeEntry_endIsDuration(item, index) ==
  LET start == NumberOr0(item.offset)
  IN [ start |-> format(start),
       end |-> format(NumberOr0(item.duration)),
       text |-> IF item.text # Str_NA THEN item.text ELSE Str_SegmentAt \o formatTime(start),
       isChapterStart |-> isChapterStart(item, index) ]

\* lines 159-180, had the chapter heuristic been run on the substituted text.
NormalizeEntry_heuristicOnPlaceholder(item, index) ==
  LET start == NumberOr0(item.offset)
      end == start + NumberOr0(item.duration)
      text == IF item.text # Str_NA THEN item.text ELSE Str_SegmentAt \o formatTime(start)
  IN [ start |-> format(start),
       end |-> format(end),
       text |-> text,
       isChapterStart |-> isChapterStart([item EXCEPT !.text = text], index) ]

\* lines 159-180: the callback of transcriptResult.map
NormalizeEntry(item, index) ==
  LET start == NumberOr0(item.offset)
      end == start + NumberOr0(item.duration)
  IN [ start |-> format(start),
       end |-> format(end),
       text |-> IF item.text # Str_NA THEN item.text ELSE Str_SegmentAt \o formatTime(start),
       isChapterStart |-> isChapterStart(item, index) ]

Normalize(transcriptResult) ==
  [i \in 1..Len(transcriptResult) |-> NormalizeEntry(transcriptResult[i], i - 1)]

\* ------------------------------------------------------------ persistence
\* TranscriptRepository.getByVideoId: the stored rows of the video, in an order
\* the storage does not guarantee.
ReadOrders(n) == {p \in [1..n -> 1..n] : \A i, j \in 1..n : p[i] = p[j] => i = j}
getByVideoId(table, v) ==
  {[i \in 1..Len(table[v]) |-> table[v][p[i]]] : p \in ReadOrders(Len(table[v]))}

\* TranscriptRepository.upsertSegments: the rows of the video are replaced.
upsertSegments(table, v, segs) == [table EXCEPT ![v] = segs]

\* UserVideoRepository.getByUserAndYoutubeId: the row of the pair, or null.
MatchingRows(rows, u, v) == {i \in 1..Len(rows) : rows[i].userId = u /\ rows[i].youtubeId = v}
getByUserAndYoutubeId(rows, u, v) ==
  IF MatchingRows(rows, u, v) = {} THEN Null
  ELSE Some(rows[CHOOSE i \in MatchingRows(rows, u, v) : \A j \in MatchingRows(rows, u, v) : i <= j])

\* UserVideoRepository.upsert, keyed on (userId, youtubeId): the row of the pair
\* takes the given summary, or a new row is inserted.
upsert(rows, rec) ==
  IF MatchingRows(rows, rec.userId, rec.youtubeId) = {}
  THEN Append(rows, [id |-> Len(rows) + 1, userId |-> rec.userId,
                     youtubeId |-> rec.youtubeId, summary |-> rec.summary])
  ELSE [i \in 1..Len(rows) |->
          IF i \in MatchingRows(rows, rec.userId, rec.youtubeId)
          THEN [rows[i] EXCEPT !.summary = rec.summary] ELSE rows[i]]

\* ------------------------------------------------------------------- sort
\* The comparator of line 141: a.start - b.start, on the stored strings.
compareFn(a, b) == NumberSubtract(StringToNumber(a.start), StringToNumber(b.start))

\* Array.prototype.sort: a NaN from the comparator counts as +0, and the sort
\* is stable.
SortCompare(a, b) == IF compareFn(a, b) = NaN THEN 0 ELSE compareFn(a, b)[1]

RECURSIVE SortInsert(_, _)
SortInsert(s, x) ==
  IF s = <<>> THEN <<x>>
  ELSE IF SortCompare(x, s[Len(s)]) < 0
       THEN Append(SortInsert(SubSeq(s, 1, Len(s) - 1), x), s[Len(s)])
       ELSE Append(s, x)

RECURSIVE sort(_)
sort(s) ==
  IF s = <<>> THEN <<>>
  ELSE SortInsert(sort(SubSeq(s, 1, Len(s) - 1)), s[Len(s)])

\* Lines 135-140: the four fields of each stored row.
MapRow(item) ==
  [start |-> item.start, end |-> item.end, text |-> item.text,
   isChapterStart |-> item.isChapterStart]
MapRows(rows) == [i \in 1..Len(rows) |-> MapRow(rows[i])]

\* ------------------------------------------------------------------ state
VARIABLES
  transcripts,  \* TranscriptRepository: video id -> stored rows
  userVideos,   \* UserVideoRepository: the association rows
  pc,           \* per invocation: the awaited call it is suspended at
  videoId,      \* per invocation: the argument
  session,      \* per invocation: the user of the request
  user,         \* per invocation: const user (line 131)
  dbSegments,   \* per invocation: const dbSegments (line 132), once read
  segments,     \* per invocation: const segments (lines 134, 159)
  transcriptResult, \* per invocation: what the provider answered (line 153), once it has
  result,       \* per invocation: the value returned, once returned
  thrown,       \* per invocation: the step whose exception left the function
  failedAt,     \* per invocation: the step whose awaited call raised
  path,         \* per invocation: the steps taken, in order
  prior,        \* per invocation: the invocations that had returned when it began
  writeLog,     \* the invocations whose upsertSegments took place, in order
  faults        \* exceptions raised so far

\* generateUserVideoSummary and generateQuickStartQuestions: one invocation.
VARIABLES
  aiFn,               \* the function invoked: "summary" or "questions"
  aiPc,               \* the awaited call it is suspended at
  currentUser,        \* the user of the request, if any
  preferredLanguage,  \* the stored language preference of that user
  transcriptSegments, \* argument: the texts of the segments
  userVideoId,        \* argument: the association id, if given
  userLanguage,       \* let userLanguage (lines 20, 216)
  handedLanguage,     \* the language handed to generateSummary / getQuickStartPrompt
  truncatedTranscript,\* const truncatedTranscript (line 232)
  generation,         \* what generateObject resolved to, once it has: result.object
  aiRaised,           \* the awaited calls that rejected
  tracked,            \* the usage records the tracker accepted
  questionWrites,     \* the updateQuickStartQuestions writes that took place
  aiResult,           \* the value returned, once returned
  aiThrown            \* the step whose exception left the function

\* The normalization of lines 159-180, applied to one provider answer.
VARIABLES
  rawTranscript,  \* the provider's entries
  normalized      \* the segments made of them, once made

\* fetchVideoDetails: one invocation.
VARIABLES
  videos,         \* VideoRepository: video id -> the stored row, if any
  pairRow,        \* UserVideoRepository: the row of (user, video), if any
  detailsPc,      \* the awaited call it is suspended at
  detailsVideoId, \* argument: videoId
  detailsSession, \* the user of the request
  detailsUser,    \* const user (line 54)
  existingVideo,  \* let existingVideo (lines 55, 61)
  detailsUserVideo, \* const detailsUserVideo (line 56)
  response,       \* const response (line 39), once the provider has answered
  videoDetails,   \* const videoDetails (line 60) / const data (line 88)
  detailsResult,  \* the value returned, once returned
  detailsThrown,  \* the step whose exception left the function
  detailsRaised   \* the awaited calls that failed

nvars == <<rawTranscript, normalized>>

tvars == <<transcripts, userVideos, pc, videoId, session, user, dbSegments, segments,
           transcriptResult, result, thrown, failedAt, path, prior, writeLog>>
avars == <<aiFn, aiPc, currentUser, preferredLanguage, transcriptSegments, userVideoId,
           userLanguage, handedLanguage, truncatedTranscript, generation, aiRaised,
           tracked, questionWrites, aiResult, aiThrown>>
dvars == <<videos, pairRow, detailsPc, detailsVideoId, detailsSession, detailsUser,
           existingVideo, detailsUserVideo, response, videoDetails, detailsResult,
           detailsThrown, detailsRaised>>
vars == <<tvars, avars, nvars, dvars, faults>>

\* The catch block's value (lines 200-205).
Unavailable ==
  [segments |-> <<>>, error |-> TRUE,
   errorMessage |-> "Transcript not available for this video", userVideo |-> Null]

\* The awaited calls of fetchVideoTranscript, each a suspend point that may reject.
AwaitedCalls ==
  {"getCurrentUser", "getByVideoId", "hit_getByUserAndYoutubeId", "hit_upsert",
   "fetchTranscript", "upsertSegments", "miss_getByUserAndYoutubeId", "miss_upsert"}

\* The try block, had getCurrentUser been awaited before it.
TryBlock_afterUser ==
  {"getByVideoId", "hit_getByUserAndYoutubeId", "hit_upsert",
   "fetchTranscript", "upsertSegments", "miss_getByUserAndYoutubeId", "miss_upsert"}

\* The calls between try { (line 130) and } catch (line 197).
TryBlock ==
  {"getCurrentUser", "getByVideoId", "hit_getByUserAndYoutubeId", "hit_upsert",
   "fetchTranscript", "upsertSegments", "miss_getByUserAndYoutubeId", "miss_upsert"}

InitTranscript ==
  /\ transcripts = [v \in Videos |-> <<>>]
  /\ userVideos = <<>>
  /\ pc = [c \in Calls |-> "idle"]
  /\ videoId = [c \in Calls |-> CHOOSE v \in Videos : TRUE]
  /\ session = [c \in Calls |-> CHOOSE u \in Users : TRUE]
  /\ user = [c \in Calls |-> Null]
  /\ dbSegments = [c \in Calls |-> Null]
  /\ segments = [c \in Calls |-> <<>>]
  /\ writeLog = <<>>
  /\ transcriptResult = [c \in Calls |-> Null]
  /\ result = [c \in Calls |-> Null]
  /\ thrown = [c \in Calls |-> Null]
  /\ failedAt = [c \in Calls |-> Null]
  /\ path = [c \in Calls |-> <<>>]
  /\ prior = [c \in Calls |-> {}]
  /\ faults = 0

\* ------------------------------------------------- text, counted in tokens
\* The transcript text of generateQuickStartQuestions is modelled by what
\* split(/\s+/) sees of it: n, the number of maximal runs of non-whitespace
\* characters (its whitespace-delimited tokens), and whether it starts (lead) and
\* ends (trail) with whitespace. The empty string has n = 0 and neither; a
\* string of whitespace only has n = 0 and both.
Text(n, lead, trail) == [n |-> n, lead |-> lead, trail |-> trail]
EmptyText == Text(0, FALSE, FALSE)
IsEmptyText(t) == t.n = 0 /\ ~t.lead
TokenCount(t) == t.n
Min(a, b) == IF a <= b THEN a ELSE b

\* a + ' ' + b
JoinTwo(a, b) ==
  Text(a.n + b.n,
       IF IsEmptyText(a) THEN TRUE ELSE a.lead,
       IF IsEmptyText(b) THEN TRUE ELSE b.trail)

\* line 228: transcriptSegments.map(seg => seg.text).join(' ')
RECURSIVE JoinTexts(_)
JoinTexts(texts) ==
  IF texts = <<>> THEN EmptyText
  ELSE IF Len(texts) = 1 THEN texts[1]
  ELSE JoinTwo(JoinTexts(SubSeq(texts, 1, Len(texts) - 1)), texts[Len(texts)])

\* A list of strings without whitespace inside: `lead` empty strings, then n
\* words, then `trail` empty strings.
WordList(lead, n, trail) == [lead |-> lead, n |-> n, trail |-> trail]
ListLen(w) == w.lead + w.n + w.trail

\* line 231: fullTranscript.split(/\s+/). Whitespace at either end of the text
\* leaves an empty string at that end of the list; "" splits into [""].
split(t) ==
  WordList(IF IsEmptyText(t) \/ t.lead THEN 1 ELSE 0, t.n, IF t.trail THEN 1 ELSE 0)

\* words.slice(0, k)
slice(w, k) ==
  WordList(Min(w.lead, k), Min(w.n, k - Min(w.lead, k)),
           Min(w.trail, k - Min(w.lead, k) - Min(w.n, k - Min(w.lead, k))))

\* words.join(' '): an empty string at an end of a list of two or more elements
\* leaves a space at that end.
join(w) == Text(w.n, w.lead = 1 /\ ListLen(w) >= 2, w.trail = 1 /\ ListLen(w) >= 2)

\* line 232, without the cap.
Truncate_nocap(t) == join(split(t))

\* The cap of line 232.
PromptWordLimit == 6000

\* lines 231-232
Truncate(t) == join(slice(split(t), PromptWordLimit))

\* ---------------------------------------------- the AI calls' environment
\* Segments per transcript handed to the AI calls.
MaxSegments == 2

TextSamples ==
  {EmptyText, Text(100, FALSE, FALSE), Text(3000, FALSE, TRUE), Text(6000, FALSE, FALSE),
   Text(6000, TRUE, TRUE), Text(10000, FALSE, FALSE)}
SegmentLists == UNION {[1..k -> TextSamples] : k \in 0..MaxSegments}

\* What the preference store may hold for a user.
StoredLanguages == {Null, Some("en"), Some("id"), Some("fr"), Some("")}
\* What generateObject may resolve to: no object, or an object with questions.
Generations == {Null, Some(<<>>), Some(<<"q1">>), Some(<<"q1", "q2">>)}
UserVideoIds == {Null, Some(0), Some(1), Some(2)}

AIIdle ==
  /\ aiFn = "none"
  /\ aiPc = "idle"
  /\ currentUser = Null
  /\ preferredLanguage = Null
  /\ transcriptSegments = <<>>
  /\ userVideoId = Null
  /\ userLanguage = "en"
  /\ handedLanguage = Null
  /\ truncatedTranscript = EmptyText
  /\ generation = Null
  /\ aiRaised = {}
  /\ tracked = <<>>
  /\ questionWrites = <<>>
  /\ aiResult = Null
  /\ aiThrown = Null

NormIdle ==
  /\ rawTranscript = <<>>
  /\ normalized = Null

DetailsIdle ==
  /\ videos = [v \in Videos |-> Null]
  /\ pairRow = Null
  /\ detailsPc = "idle"
  /\ detailsVideoId = CHOOSE v \in Videos : TRUE
  /\ detailsSession = CHOOSE u \in Users : TRUE
  /\ detailsUser = Null
  /\ existingVideo = Null
  /\ detailsUserVideo = Null
  /\ response = Null
  /\ videoDetails = Null
  /\ detailsResult = Null
  /\ detailsThrown = Null
  /\ detailsRaised = {}

Init == InitTranscript /\ AIIdle /\ NormIdle /\ DetailsIdle

\* One AI call is invoked: the function, its arguments and the state of the
\* session and of the preference store.
InitAI ==
  /\ InitTranscript
  /\ NormIdle
  /\ DetailsIdle
  /\ aiFn \in {"summary", "questions"}
  /\ aiPc = "lang_getCurrentUser"
  /\ currentUser \in {Null} \cup {Some(u) : u \in Users}
  /\ preferredLanguage \in StoredLanguages
  /\ transcriptSegments \in SegmentLists
  /\ userVideoId \in UserVideoIds
  /\ userLanguage = "en"
  /\ handedLanguage = Null
  /\ truncatedTranscript = EmptyText
  /\ generation = Null
  /\ aiRaised = {}
  /\ tracked = <<>>
  /\ questionWrites = <<>>
  /\ aiResult = Null
  /\ aiThrown = Null

\* A step of invocation c: it moves to `next` and the step is recorded.
Goto(c, next) ==
  /\ pc' = [pc EXCEPT ![c] = next]
  /\ path' = [path EXCEPT ![c] = Append(@, pc[c])]

\* return value (lines 150, 193-196, 200-205).
Return(c, value) ==
  /\ Goto(c, "done")
  /\ result' = [result EXCEPT ![c] = Some(value)]

\* An exception raised at `step`: caught by the catch of line 197 when the step
\* is inside the try block, leaving the function otherwise.
Throw(c, step) ==
  IF step \in TryBlock
  THEN /\ Return(c, Unavailable)
       /\ UNCHANGED thrown
  ELSE /\ Goto(c, "threw")
       /\ thrown' = [thrown EXCEPT ![c] = Some(step)]
       /\ UNCHANGED result

\* A request arrives: fetchVideoTranscript(v) is invoked for the session's user.
Invoke(c) ==
  /\ pc[c] = "idle"
  /\ \A d \in Calls : d < c => pc[d] # "idle"
  /\ \E v \in Videos, u \in Users :
       /\ videoId' = [videoId EXCEPT ![c] = v]
       /\ session' = [session EXCEPT ![c] = u]
  /\ prior' = [prior EXCEPT ![c] = {d \in Calls : pc[d] = "done"}]
  /\ pc' = [pc EXCEPT ![c] = "getCurrentUser"]
  /\ UNCHANGED <<dbSegments, writeLog, transcriptResult, transcripts, userVideos, user, segments, result, thrown, failedAt,
                 path, faults>>
  /\ UNCHANGED <<avars, nvars, dvars>>

\* line 131
GetCurrentUser(c) ==
  /\ pc[c] = "getCurrentUser"
  /\ user' = [user EXCEPT ![c] = Some(session[c])]
  /\ Goto(c, "getByVideoId")
  /\ UNCHANGED <<dbSegments, writeLog, transcriptResult, transcripts, userVideos, videoId, session, segments, result, thrown,
                 failedAt, prior, faults>>
  /\ UNCHANGED <<avars, nvars, dvars>>

\* line 133, had the stored rows never been used.
CacheHit_never(rows) == FALSE

\* line 133, had the test been >= 0.
CacheHit_always(rows) == Len(rows) >= 0

\* line 133: dbSegments.length > 0
CacheHit(rows) == Len(rows) > 0

\* lines 132-141, and the empty case that falls through to line 153
GetByVideoId(c) ==
  /\ pc[c] = "getByVideoId"
  /\ \E rows \in getByVideoId(transcripts, videoId[c]) :
       /\ dbSegments' = [dbSegments EXCEPT ![c] = Some(rows)]
       /\ IF CacheHit(rows)
          THEN /\ segments' = [segments EXCEPT ![c] = sort(MapRows(rows))]
               /\ Goto(c, "hit_getByUserAndYoutubeId")
          ELSE /\ Goto(c, "fetchTranscript")
               /\ UNCHANGED segments
  /\ UNCHANGED <<writeLog, transcriptResult, transcripts, userVideos, videoId, session, user, result, thrown,
                 failedAt, prior, faults>>
  /\ UNCHANGED <<avars, nvars, dvars>>

\* The write of lines 144-148 and 186-190, had it been an unkeyed insert.
CreateUserVideo_insert(rows, u, v) ==
  Append(rows, [id |-> Len(rows) + 1, userId |-> u, youtubeId |-> v, summary |-> ""])

\* The write of lines 144-148 and 186-190: UserVideoRepository.upsert with an
\* empty summary.
CreateUserVideo(rows, u, v) == upsert(rows, [userId |-> u, youtubeId |-> v, summary |-> ""])

\* lines 142-143 and 150: the association is looked up, and returned if found
HitLookup(c) ==
  /\ pc[c] = "hit_getByUserAndYoutubeId"
  /\ LET userVideo == getByUserAndYoutubeId(userVideos, Val(user[c]), videoId[c])
     IN IF IsNull(userVideo)
        THEN Goto(c, "hit_upsert") /\ UNCHANGED result
        ELSE Return(c, [segments |-> segments[c], userVideo |-> userVideo])
  /\ UNCHANGED <<dbSegments, writeLog, transcriptResult, transcripts, userVideos, videoId, session, user, segments, thrown,
                 failedAt, prior, faults>>
  /\ UNCHANGED <<avars, nvars, dvars>>

\* lines 144-150
HitUpsert(c) ==
  /\ pc[c] = "hit_upsert"
  /\ userVideos' = CreateUserVideo(userVideos, Val(user[c]), videoId[c])
  /\ Return(c, [segments |-> segments[c],
                userVideo |-> getByUserAndYoutubeId(userVideos', Val(user[c]), videoId[c])])
  /\ UNCHANGED <<dbSegments, writeLog, transcriptResult, transcripts, videoId, session, user, segments, thrown, failedAt,
                 prior, faults>>
  /\ UNCHANGED <<avars, nvars, dvars>>

\* line 155, had the length not been tested.
NoTranscript_missingOnly(r) == IsNull(r)

\* line 155: !transcriptResult || transcriptResult.length === 0
NoTranscript(r) == IsNull(r) \/ Len(Val(r)) = 0

\* lines 153-180
FetchTranscript(c) ==
  /\ pc[c] = "fetchTranscript"
  /\ \E r \in ProviderResults :
       /\ transcriptResult' = [transcriptResult EXCEPT ![c] = Some(r)]
       /\ IF NoTranscript(r)
          THEN /\ Throw(c, "fetchTranscript")
               /\ UNCHANGED segments
          ELSE /\ segments' = [segments EXCEPT ![c] = Normalize(Val(r))]
               /\ Goto(c, "upsertSegments")
               /\ UNCHANGED <<result, thrown>>
  /\ UNCHANGED <<dbSegments, writeLog, transcripts, userVideos, videoId, session, user, failedAt, prior, faults>>
  /\ UNCHANGED <<avars, nvars, dvars>>

\* The write of line 182, had it added the rows to those stored.
PersistSegments_append(table, v, segs) == [table EXCEPT ![v] = @ \o segs]

\* The write of line 182, had it not been awaited to its effect.
PersistSegments_skip(table, v, segs) == table

\* The write of line 182: TranscriptRepository.upsertSegments(videoId, segments)
PersistSegments(table, v, segs) == upsertSegments(table, v, segs)

\* line 182
UpsertSegments(c) ==
  /\ pc[c] = "upsertSegments"
  /\ transcripts' = PersistSegments(transcripts, videoId[c], segments[c])
  /\ writeLog' = Append(writeLog, c)
  /\ Goto(c, "miss_getByUserAndYoutubeId")
  /\ UNCHANGED <<dbSegments, transcriptResult, userVideos, videoId, session, user, segments, result, thrown,
                 failedAt, prior, faults>>
  /\ UNCHANGED <<avars, nvars, dvars>>

\* lines 184-185 and 193-196
MissLookup(c) ==
  /\ pc[c] = "miss_getByUserAndYoutubeId"
  /\ LET userVideo == getByUserAndYoutubeId(userVideos, Val(user[c]), videoId[c])
     IN IF IsNull(userVideo)
        THEN Goto(c, "miss_upsert") /\ UNCHANGED result
        ELSE Return(c, [segments |-> segments[c], userVideo |-> userVideo])
  /\ UNCHANGED <<dbSegments, writeLog, transcriptResult, transcripts, userVideos, videoId, session, user, segments, thrown,
                 failedAt, prior, faults>>
  /\ UNCHANGED <<avars, nvars, dvars>>

\* lines 186-196
MissUpsert(c) ==
  /\ pc[c] = "miss_upsert"
  /\ userVideos' = CreateUserVideo(userVideos, Val(user[c]), videoId[c])
  /\ Return(c, [segments |-> segments[c],
                userVideo |-> getByUserAndYoutubeId(userVideos', Val(user[c]), videoId[c])])
  /\ UNCHANGED <<dbSegments, writeLog, transcriptResult, transcripts, videoId, session, user, segments, thrown, failedAt,
                 prior, faults>>
  /\ UNCHANGED <<avars, nvars, dvars>>

\* The call invocation c is suspended at rejects (no session, a storage error,
\* a provider error): its effect does not take place.
Reject(c) ==
  /\ pc[c] \in AwaitedCalls
  /\ faults < MaxFaults
  /\ faults' = faults + 1
  /\ failedAt' = [failedAt EXCEPT ![c] = Some(pc[c])]
  /\ Throw(c, pc[c])
  /\ UNCHANGED <<dbSegments, writeLog, transcriptResult, transcripts, userVideos, videoId, session, user, segments, prior>>
  /\ UNCHANGED <<avars, nvars, dvars>>

Next ==
  \E c \in Calls :
    \/ Invoke(c)
    \/ GetCurrentUser(c)
    \/ GetByVideoId(c)
    \/ HitLookup(c)
    \/ HitUpsert(c)
    \/ FetchTranscript(c)
    \/ UpsertSegments(c)
    \/ MissLookup(c)
    \/ MissUpsert(c)
    \/ Reject(c)

Spec == Init /\ [][Next]_vars

\* ------------------------------------------------------ the summary save
\* The summarizer (lib/ai/summary) stores the summary it generated on the
\* association it was given.
SaveSummary ==
  /\ \E i \in 1..Len(userVideos) :
       /\ userVideos[i].summary = ""
       /\ userVideos' = [userVideos EXCEPT ![i].summary = "summary"]
  /\ UNCHANGED <<transcripts, pc, videoId, session, user, dbSegments, segments,
                 transcriptResult, result, thrown, failedAt, path, prior, writeLog>>
  /\ UNCHANGED <<avars, nvars, dvars, faults>>

NextSummary == Next \/ SaveSummary

SpecSummary == Init /\ [][NextSummary]_vars

\* ------------------------------------------------------------ the AI calls
\* The awaited calls of generateUserVideoSummary (lines 22, 23, 31) and of
\* generateQuickStartQuestions (lines 218, 219, 256, 266, 267, 283).
AwaitedAICalls ==
  {"lang_getCurrentUser", "lang_getPreferredLanguage", "generateSummary",
   "generateObject", "track_getCurrentUser", "trackGenerateTextUsage",
   "updateQuickStartQuestions"}

\* The try block an awaited call is in, had the tracking block (lines 265-278)
\* had no try around it.
TryOf_trackingUncaught(step) ==
  IF step \in {"lang_getCurrentUser", "lang_getPreferredLanguage"} THEN "language"
  ELSE "none"

\* The try block an awaited call is in: lines 21-29 and 217-225 (language),
\* lines 265-278 (tracking), or none.
TryOf(step) ==
  IF step \in {"lang_getCurrentUser", "lang_getPreferredLanguage"} THEN "language"
  ELSE IF step \in {"track_getCurrentUser", "trackGenerateTextUsage"} THEN "tracking"
  ELSE "none"

\* lines 24-26 and 220-222, had the stored value been taken as it is.
ResolveLanguage_unchecked(savedLanguage) ==
  IF IsNull(savedLanguage) THEN "en" ELSE Val(savedLanguage)

\* lines 24-26 and 220-222: the stored value is taken only if it is 'en' or 'id'.
ResolveLanguage(savedLanguage) ==
  IF savedLanguage = Some("en") \/ savedLanguage = Some("id")
  THEN Val(savedLanguage) ELSE "en"

\* JavaScript truthiness of an optional number: undefined and 0 are falsy.
Truthy(o) == ~IsNull(o) /\ Val(o) # 0

\* line 280: result.object?.questions || []
QuestionsOf(object) == IF IsNull(object) THEN <<>> ELSE Val(object)

\* line 282
ShouldPersist(id, questions) == Truthy(id) /\ Len(questions) > 0

\* After the language block: lines 31 (summary) and 227-256 (questions) up to
\* the next awaited call, with the language resolved to `lang`.
AfterLanguage(lang) ==
  /\ userLanguage' = lang
  /\ handedLanguage' = Some(lang)
  /\ IF aiFn = "summary"
     THEN /\ aiPc' = "generateSummary"
          /\ UNCHANGED truncatedTranscript
     ELSE /\ aiPc' = "generateObject"
          /\ truncatedTranscript' = Truncate(JoinTexts(transcriptSegments))
  /\ UNCHANGED <<generation, tracked, questionWrites, aiResult, aiThrown>>

\* After the tracking block: lines 280-286 up to the next awaited call or the
\* return.
AfterTracking ==
  /\ IF ShouldPersist(userVideoId, QuestionsOf(Val(generation)))
     THEN aiPc' = "updateQuickStartQuestions" /\ UNCHANGED aiResult
     ELSE aiPc' = "done" /\ aiResult' = Some(QuestionsOf(Val(generation)))
  /\ UNCHANGED <<userLanguage, handedLanguage, truncatedTranscript, generation,
                 questionWrites, aiThrown>>

\* An exception outside every try block, had the function returned an empty
\* list in its place.
Propagate_swallow(step) ==
  /\ aiPc' = "done"
  /\ aiResult' = Some(<<>>)
  /\ UNCHANGED <<userLanguage, handedLanguage, truncatedTranscript, generation,
                 questionWrites, aiThrown>>

\* An exception raised by an awaited call outside every try block (lines 31,
\* 256, 283) leaves the function: nothing is returned.
Propagate(step) ==
  /\ aiPc' = "threw"
  /\ aiThrown' = Some(step)
  /\ UNCHANGED <<userLanguage, handedLanguage, truncatedTranscript, generation,
                 questionWrites, aiResult>>

\* The awaited call `step` raises: the catch of its try block runs and the
\* function goes on after it, or the exception leaves the function.
AIRaise(step) ==
  /\ aiRaised' = aiRaised \cup {step}
  /\ UNCHANGED tracked
  /\ IF TryOf(step) = "language" THEN AfterLanguage(userLanguage)
     ELSE IF TryOf(step) = "tracking" THEN AfterTracking
     ELSE Propagate(step)

AIFrame == UNCHANGED <<tvars, nvars, dvars, faults, aiFn, currentUser, preferredLanguage,
                       transcriptSegments, userVideoId>>

\* lines 22 and 218: getCurrentUser fails when the request has no user.
LangGetCurrentUser ==
  /\ aiPc = "lang_getCurrentUser"
  /\ IF IsNull(currentUser)
     THEN AIRaise("lang_getCurrentUser")
     ELSE /\ aiPc' = "lang_getPreferredLanguage"
          /\ UNCHANGED <<userLanguage, handedLanguage, truncatedTranscript, generation,
                         aiRaised, tracked, questionWrites, aiResult, aiThrown>>
  /\ AIFrame

\* lines 23-26 and 219-222
LangGetPreferredLanguage ==
  /\ aiPc = "lang_getPreferredLanguage"
  /\ AfterLanguage(ResolveLanguage(preferredLanguage))
  /\ UNCHANGED <<aiRaised, tracked>>
  /\ AIFrame

\* lines 31-33: the summarizer's result is returned.
GenerateSummary ==
  /\ aiPc = "generateSummary"
  /\ aiPc' = "done"
  /\ aiResult' = Some(<<"summary", Val(handedLanguage)>>)
  /\ UNCHANGED <<userLanguage, handedLanguage, truncatedTranscript, generation, aiRaised,
                 tracked, questionWrites, aiThrown>>
  /\ AIFrame

\* lines 256-263
GenerateObject ==
  /\ aiPc = "generateObject"
  /\ \E object \in Generations : generation' = Some(object)
  /\ aiPc' = "track_getCurrentUser"
  /\ UNCHANGED <<userLanguage, handedLanguage, truncatedTranscript, aiRaised, tracked,
                 questionWrites, aiResult, aiThrown>>
  /\ AIFrame

\* line 266
TrackGetCurrentUser ==
  /\ aiPc = "track_getCurrentUser"
  /\ IF IsNull(currentUser)
     THEN AIRaise("track_getCurrentUser")
     ELSE /\ aiPc' = "trackGenerateTextUsage"
          /\ UNCHANGED <<userLanguage, handedLanguage, truncatedTranscript, generation,
                         aiRaised, tracked, questionWrites, aiResult, aiThrown>>
  /\ AIFrame

\* lines 267-275, then 280-286 up to the next awaited call
TrackGenerateTextUsage ==
  /\ aiPc = "trackGenerateTextUsage"
  /\ tracked' = Append(tracked, [userId |-> Val(currentUser), userVideoId |-> userVideoId])
  /\ AfterTracking
  /\ UNCHANGED aiRaised
  /\ AIFrame

\* lines 283-286
UpdateQuickStartQuestions ==
  /\ aiPc = "updateQuickStartQuestions"
  /\ questionWrites' = Append(questionWrites,
        [userVideoId |-> Val(userVideoId), questions |-> QuestionsOf(Val(generation))])
  /\ aiPc' = "done"
  /\ aiResult' = Some(QuestionsOf(Val(generation)))
  /\ UNCHANGED <<userLanguage, handedLanguage, truncatedTranscript, generation, aiRaised,
                 tracked, aiThrown>>
  /\ AIFrame

\* The call the AI invocation is suspended at rejects (a storage, provider or
\* network error): its effect does not take place.
AIReject ==
  /\ aiPc \in AwaitedAICalls
  /\ faults < MaxFaults
  /\ faults' = faults + 1
  /\ AIRaise(aiPc)
  /\ UNCHANGED <<tvars, nvars, dvars, aiFn, currentUser, preferredLanguage, transcriptSegments,
                 userVideoId>>

NextAI ==
  \/ LangGetCurrentUser
  \/ LangGetPreferredLanguage
  \/ GenerateSummary
  \/ GenerateObject
  \/ TrackGetCurrentUser
  \/ TrackGenerateTextUsage
  \/ UpdateQuickStartQuestions
  \/ AIReject

SpecAI == InitAI /\ [][NextAI]_vars

\* --------------------------------------------------------- normalization
\* Entries per provider answer.
MaxEntries == 11

Repeat(ch, n) == [i \in 1..n |-> ch]
ProbeTexts ==
  {Str_Hi, Str_NA, Str_Intro, Repeat("a", 29), Repeat("a", 30),
   <<"a", " ">> \o Str_segment, <<"S", "e", "g", "m", "e", "n", "t">>}
ProbeOffsets ==
  {Null, Some(0), Some(5), Some(3599), Some(46799), Some(86399), Some(86400), Some(90000)}
ProbeDurations == {Null, Some(0), Some(2), Some(86400)}
ProbeEntries ==
  {RawEntry(t, o, d) : t \in ProbeTexts, o \in ProbeOffsets, d \in ProbeDurations}

\* A provider answer: n entries two seconds apart, with the entry at index k
\* (0-based) replaced by a chosen one.
Answer(n, k, probe) ==
  [i \in 1..n |-> IF i = k + 1 THEN probe ELSE RawEntry(Str_Hi, Some(2 * (i - 1)), Some(2))]
Answers == {Answer(n, k, e) : n \in 1..MaxEntries, k \in 0..(MaxEntries - 1), e \in ProbeEntries}

InitNorm ==
  /\ InitTranscript
  /\ AIIdle
  /\ DetailsIdle
  /\ rawTranscript \in {a \in Answers : Len(a) > 0}
  /\ normalized = Null

\* lines 159-180, on an answer that passed the test of line 155
NormalizeAnswer ==
  /\ IsNull(normalized)
  /\ ~NoTranscript(Some(rawTranscript))
  /\ normalized' = Some(Normalize(rawTranscript))
  /\ UNCHANGED <<tvars, avars, dvars, faults, rawTranscript>>

NextNorm == NormalizeAnswer

SpecNorm == InitNorm /\ [][NextNorm]_vars

\* ------------------------------------------------------ fetchVideoDetails
\* a || b on strings: the first operand unless it is undefined, null or "".
Falsy(x) == IsNull(x) \/ x = Some("")
OrElse(a, b) == IF Falsy(a) THEN b ELSE a

\* The thumbnail sizes the provider may describe.
Sizes == {"maxres", "standard", "high", "medium", "default"}
\* data.thumbnails?.<size>?.url
UrlOf(data, size) == IF IsNull(data.thumbnails) THEN Null ELSE Val(data.thumbnails)[size]

NoThumbnail == [z \in Sizes |-> Null]
\* What the metadata provider may answer with a success status.
VideoData ==
  {[title |-> "Title", description |-> "Description", channelTitle |-> "Channel",
    publishedAt |-> Some("2024-01-01T00:00:00.000Z"),
    thumbnails |-> Some([NoThumbnail EXCEPT !["maxres"] = Some("maxres.jpg"),
                                            !["high"] = Some("high.jpg")]),
    tags |-> Some(<<"tag">>)],
   [title |-> "Title", description |-> "", channelTitle |-> "Channel",
    publishedAt |-> Some(""),
    thumbnails |-> Some([NoThumbnail EXCEPT !["default"] = Some("default.jpg")]),
    tags |-> Some(<<>>)],
   [title |-> "Title", description |-> "Description", channelTitle |-> "Unknown Channel",
    publishedAt |-> Null, thumbnails |-> Null, tags |-> Null]}

\* The responses of the provider: a non-success status, or a success and its body.
Responses ==
  {[ok |-> FALSE, body |-> Null]} \cup {[ok |-> TRUE, body |-> Some(d)] : d \in VideoData}

\* What VideoRepository may hold for a video before the call.
StoredVideos ==
  {Null,
   Some([youtubeId |-> "v1", title |-> "Video v1",
         description |-> Some("Unable to load video description."),
         channelTitle |-> Some("Unknown Channel"), publishedAt |-> Null,
         thumbnailUrl |-> Null]),
   Some([youtubeId |-> "v1", title |-> "Title", description |-> Null,
         channelTitle |-> Some("Channel"),
         publishedAt |-> Some("2024-01-01T00:00:00.000Z"),
         thumbnailUrl |-> Some("high.jpg")]),
   Some([youtubeId |-> "v1", title |-> "Title", description |-> Some("Description"),
         channelTitle |-> Null, publishedAt |-> Null, thumbnailUrl |-> Some("")])}

\* What UserVideoRepository may hold for the pair before the call.
StoredPairs(u, v) ==
  {Null, Some([id |-> 1, userId |-> u, youtubeId |-> v, summary |-> ""]),
   Some([id |-> 1, userId |-> u, youtubeId |-> v, summary |-> "summary"])}

\* The record of lines 62-74, for a row whose channel was unknown.
RefreshedRow(v, data) ==
  [youtubeId |-> v, title |-> data.title, description |-> Some(data.description),
   channelTitle |-> Some(data.channelTitle),
   publishedAt |-> IF Falsy(data.publishedAt) THEN Null ELSE data.publishedAt,
   thumbnailUrl |-> OrElse(UrlOf(data, "high"),
                    OrElse(UrlOf(data, "medium"),
                    OrElse(UrlOf(data, "default"), Null)))]

\* The record of lines 91-102, for a video not stored yet.
NewRow(v, data) ==
  [youtubeId |-> v, title |-> data.title, description |-> Some(data.description),
   channelTitle |-> Some(data.channelTitle),
   publishedAt |-> IF Falsy(data.publishedAt) THEN Null ELSE data.publishedAt,
   thumbnailUrl |-> OrElse(UrlOf(data, "maxres"),
                    OrElse(UrlOf(data, "standard"),
                    OrElse(UrlOf(data, "high"),
                    OrElse(UrlOf(data, "medium"),
                    OrElse(UrlOf(data, "default"), Some(""))))))]

\* VideoRepository.upsert, keyed on youtubeId: the row of the video is the record.
VideoUpsert(table, rec) == [table EXCEPT ![rec.youtubeId] = Some(rec)]

\* lines 76-85
ExistingResult(row, uv) ==
  [title |-> row.title,
   description |-> Val(OrElse(row.description, Some(""))),
   channelTitle |-> Val(OrElse(row.channelTitle, Some(""))),
   publishedAt |-> row.publishedAt,
   thumbnails |-> [high |-> [url |-> Val(OrElse(row.thumbnailUrl, Some("")))]],
   tags |-> <<>>, userVideo |-> uv, video |-> row]

\* lines 105-113
NewResult(data, uv) ==
  [title |-> data.title, description |-> data.description,
   channelTitle |-> data.channelTitle, publishedAt |-> data.publishedAt,
   thumbnails |-> data.thumbnails, tags |-> data.tags, userVideo |-> uv]

\* lines 117-125
PlaceholderResult(v) ==
  [title |-> "Video " \o v, description |-> "Unable to load video description.",
   channelTitle |-> "Unknown Channel", publishedAt |-> Some("now"),
   thumbnails |-> <<>>, tags |-> <<>>, userVideo |-> Null]

\* The awaited calls of fetchVideoDetails.
AwaitedDetailsCalls ==
  {"getCurrentUser", "getByYoutubeId", "getByUserAndYoutubeId",
   "refresh_fetchVideoFromApi", "refresh_upsert", "fetchVideoFromApi", "upsert"}

\* The try block, had getCurrentUser been awaited before it.
DetailsTryBlock_afterUser ==
  {"getByYoutubeId", "getByUserAndYoutubeId",
   "refresh_fetchVideoFromApi", "refresh_upsert", "fetchVideoFromApi", "upsert"}

\* The calls between try { (line 53) and } catch (line 114).
DetailsTryBlock ==
  {"getCurrentUser", "getByYoutubeId", "getByUserAndYoutubeId",
   "refresh_fetchVideoFromApi", "refresh_upsert", "fetchVideoFromApi", "upsert"}

\* fetchVideoDetails(v) is invoked: the argument, the session and the stores.
InitDetails ==
  /\ InitTranscript
  /\ AIIdle
  /\ NormIdle
  /\ detailsVideoId \in Videos
  /\ detailsSession \in Users
  /\ \E row \in StoredVideos : videos = [v \in Videos |-> row]
  /\ pairRow \in StoredPairs(detailsSession, detailsVideoId)
  /\ detailsPc = "getCurrentUser"
  /\ detailsUser = Null
  /\ existingVideo = Null
  /\ detailsUserVideo = Null
  /\ response = Null
  /\ videoDetails = Null
  /\ detailsResult = Null
  /\ detailsThrown = Null
  /\ detailsRaised = {}

DetailsReturn(value) ==
  /\ detailsPc' = "done"
  /\ detailsResult' = Some(value)

\* An exception raised at `step`: caught by the catch of line 114 when the step
\* is inside the try block, leaving the function otherwise.
DetailsThrow(step) ==
  IF step \in DetailsTryBlock
  THEN /\ DetailsReturn(PlaceholderResult(detailsVideoId))
       /\ UNCHANGED detailsThrown
  ELSE /\ detailsPc' = "threw"
       /\ detailsThrown' = Some(step)
       /\ UNCHANGED detailsResult

DetailsFrame == UNCHANGED <<tvars, avars, nvars, faults, pairRow, detailsVideoId, detailsSession>>

\* line 54
DetailsGetCurrentUser ==
  /\ detailsPc = "getCurrentUser"
  /\ detailsUser' = Some(detailsSession)
  /\ detailsPc' = "getByYoutubeId"
  /\ UNCHANGED <<videos, existingVideo, detailsUserVideo, response, videoDetails,
                 detailsResult, detailsThrown, detailsRaised>>
  /\ DetailsFrame

\* line 55
GetByYoutubeId ==
  /\ detailsPc = "getByYoutubeId"
  /\ existingVideo' = videos[detailsVideoId]
  /\ detailsPc' = "getByUserAndYoutubeId"
  /\ UNCHANGED <<videos, detailsUser, detailsUserVideo, response, videoDetails,
                 detailsResult, detailsThrown, detailsRaised>>
  /\ DetailsFrame

\* line 56, and the tests of lines 58-59: a stored video whose channel is known
\* is returned (lines 76-85) without another await.
GetByUserAndYoutubeId ==
  /\ detailsPc = "getByUserAndYoutubeId"
  /\ detailsUserVideo' = pairRow
  /\ IF IsNull(existingVideo)
     THEN detailsPc' = "fetchVideoFromApi" /\ UNCHANGED detailsResult
     ELSE IF Val(existingVideo).channelTitle = Some("Unknown Channel")
          THEN detailsPc' = "refresh_fetchVideoFromApi" /\ UNCHANGED detailsResult
          ELSE DetailsReturn(ExistingResult(Val(existingVideo), pairRow))
  /\ UNCHANGED <<videos, detailsUser, existingVideo, response, videoDetails,
                 detailsThrown, detailsRaised>>
  /\ DetailsFrame

\* fetchVideoFromApi (lines 36-50), awaited at line 60 or line 88: the provider
\* answers; a status that is not a success is thrown (lines 45-47), the body of
\* a success is the value.
FetchVideoFromApi ==
  /\ detailsPc \in {"refresh_fetchVideoFromApi", "fetchVideoFromApi"}
  /\ \E r \in Responses :
       /\ response' = Some(r)
       /\ IF ~r.ok
          THEN /\ detailsRaised' = detailsRaised \cup {detailsPc}
               /\ DetailsThrow(detailsPc)
               /\ UNCHANGED videoDetails
          ELSE /\ videoDetails' = r.body
               /\ detailsPc' = IF detailsPc = "fetchVideoFromApi" THEN "upsert"
                               ELSE "refresh_upsert"
               /\ UNCHANGED <<detailsResult, detailsThrown, detailsRaised>>
  /\ UNCHANGED <<videos, detailsUser, existingVideo, detailsUserVideo>>
  /\ DetailsFrame

\* lines 61-75, then the return of lines 76-85
RefreshUpsert ==
  /\ detailsPc = "refresh_upsert"
  /\ videos' = VideoUpsert(videos, RefreshedRow(detailsVideoId, Val(videoDetails)))
  /\ existingVideo' = Some(RefreshedRow(detailsVideoId, Val(videoDetails)))
  /\ DetailsReturn(ExistingResult(RefreshedRow(detailsVideoId, Val(videoDetails)), detailsUserVideo))
  /\ UNCHANGED <<detailsUser, detailsUserVideo, response, videoDetails, detailsThrown,
                 detailsRaised>>
  /\ DetailsFrame

\* lines 90-103, then the return of lines 105-113
NewUpsert ==
  /\ detailsPc = "upsert"
  /\ videos' = VideoUpsert(videos, NewRow(detailsVideoId, Val(videoDetails)))
  /\ DetailsReturn(NewResult(Val(videoDetails), detailsUserVideo))
  /\ UNCHANGED <<detailsUser, existingVideo, detailsUserVideo, response, videoDetails,
                 detailsThrown, detailsRaised>>
  /\ DetailsFrame

\* The awaited call the invocation is suspended at rejects: the session cannot
\* be resolved, a repository fails, or the provider cannot be reached.
DetailsReject ==
  /\ detailsPc \in AwaitedDetailsCalls
  /\ detailsRaised' = detailsRaised \cup {detailsPc}
  /\ DetailsThrow(detailsPc)
  /\ UNCHANGED <<videos, detailsUser, existingVideo, detailsUserVideo, response, videoDetails>>
  /\ DetailsFrame

NextDetails ==
  \/ DetailsGetCurrentUser
  \/ GetByYoutubeId
  \/ GetByUserAndYoutubeId
  \/ FetchVideoFromApi
  \/ RefreshUpsert
  \/ NewUpsert
  \/ DetailsReject

SpecDetails == InitDetails /\ [][NextDetails]_vars

\* ------------------------------------------------- claims: the transcript
Range(s) == {s[i] : i \in 1..Len(s)}
Returned(c) == pc[c] = "done"
\* A result without the error flag.
Succeeded(c) == Returned(c) /\ "error" \notin DOMAIN Val(result[c])
UserVideoWrites(c) == {i \in 1..Len(path[c]) : path[c][i] \in {"hit_upsert", "miss_upsert"}}
SegmentWrites(c) == {i \in 1..Len(path[c]) : path[c][i] = "upsertSegments"}
TookMiss(c) == "upsertSegments" \in Range(path[c])
TookHit(c) == "hit_getByUserAndYoutubeId" \in Range(path[c])

\* C1: fetchVideoTranscript never propagates an exception: no invocation ends
\* with an exception leaving it, and an invocation one of whose awaited calls
\* raised has returned the unavailable result: no segments, error = true, an
\* error message and a null association.
C1_NeverPropagates ==
  \A c \in Calls :
    /\ pc[c] # "threw"
    /\ IsNull(thrown[c])
    /\ ~IsNull(failedAt[c]) =>
         /\ Returned(c)
         /\ Val(result[c]).segments = <<>>
         /\ Val(result[c]).error = TRUE
         /\ Val(result[c]).errorMessage = "Transcript not available for this video"
         /\ IsNull(Val(result[c]).userVideo)

\* The association write of an invocation raised, after its segments were stored.
C1_Witness ==
  \E c \in Calls : failedAt[c] = Some("miss_upsert") /\ Returned(c)

\* C2: an invocation that found no stored segments and to which the provider
\* answered nothing or an empty list has issued no association write and no
\* segment write, and has returned a result with error = true.
C2_EmptyProvider ==
  \A c \in Calls :
    (~IsNull(transcriptResult[c])
       /\ (IsNull(Val(transcriptResult[c])) \/ Val(transcriptResult[c]) = Some(<<>>))) =>
      /\ Returned(c)
      /\ Val(result[c]).error = TRUE
      /\ UserVideoWrites(c) = {}
      /\ SegmentWrites(c) = {}

\* The provider answered an empty list to an invocation, which has returned.
C2_Witness ==
  \E c \in Calls : transcriptResult[c] = Some(Some(<<>>)) /\ Returned(c)

\* C3: when an invocation that stored the segments itself (a successful cache
\* miss) had returned before a second invocation for the same video began, and
\* the second has returned segments from the stored rows, the second returns
\* the segment sequence of the first, and no stored row occurs twice.
C3_Idempotent ==
  \A c1, c2 \in Calls :
    (/\ c1 \in prior[c2]
     /\ videoId[c1] = videoId[c2]
     /\ Succeeded(c1) /\ TookMiss(c1)
     /\ Succeeded(c2) /\ TookHit(c2)
     /\ \A d \in Calls \ {c1} : ~TookMiss(d)) =>
      /\ Val(result[c2]).segments = Val(result[c1]).segments
      /\ Cardinality(Range(transcripts[videoId[c2]])) = Len(transcripts[videoId[c2]])

\* The segments are in ascending lexical order of `start`.
SortedByStart(segs) == \A i \in 1..(Len(segs) - 1) : StrLeq(segs[i].start, segs[i + 1].start)

\* C4: the segments an invocation returns on a cache hit are sorted ascending
\* by `start`, whatever order the stored rows were read in.
C4_HitSorted ==
  \A c \in Calls : (Succeeded(c) /\ TookHit(c)) => SortedByStart(Val(result[c]).segments)

\* C5: at most one association exists for each (user, video) pair.
C5_OneAssociation ==
  \A u \in Users, v \in Videos : Cardinality(MatchingRows(userVideos, u, v)) <= 1

\* Two invocations of the same user and video both found no association and
\* both issued the write.
C5_Witness ==
  \E c1, c2 \in Calls :
    /\ c1 # c2
    /\ session[c1] = session[c2] /\ videoId[c1] = videoId[c2]
    /\ Returned(c1) /\ Returned(c2)
    /\ UserVideoWrites(c1) # {} /\ UserVideoWrites(c2) # {}

\* The invocations that stored segments for video v, in the order of their writes.
Writers(v) == SelectSeq(writeLog, LAMBDA c : videoId[c] = v)

\* C16: the rows stored for a video are at every moment exactly the normalized
\* sequence of the invocation that wrote last, whole and once: no rows of an
\* earlier writer remain and none are doubled.
C16_LastWriterWins ==
  \A v \in Videos :
    IF Writers(v) = <<>> THEN transcripts[v] = <<>>
    ELSE /\ transcripts[v] = segments[Writers(v)[Len(Writers(v))]]
         /\ transcripts[v] =
              Normalize(Val(Val(transcriptResult[Writers(v)[Len(Writers(v))]])))

\* Two invocations both found no stored rows, were answered different
\* transcripts, both wrote and both returned.
C16_Witness ==
  \E c1, c2 \in Calls :
    /\ writeLog = <<c1, c2>>
    /\ videoId[c1] = videoId[c2]
    /\ dbSegments[c1] = Some(<<>>) /\ dbSegments[c2] = Some(<<>>)
    /\ segments[c1] # segments[c2]
    /\ Succeeded(c1) /\ Succeeded(c2)

\* C17: an invocation whose read returned one or more rows never calls the
\* provider and never writes transcript rows; an invocation that is at the
\* provider call, or past it, read zero rows.
C17_HitLeavesStore ==
  \A c \in Calls :
    /\ (~IsNull(dbSegments[c]) /\ Len(Val(dbSegments[c])) > 0) =>
         /\ IsNull(transcriptResult[c])
         /\ pc[c] \notin {"fetchTranscript", "upsertSegments"}
         /\ "fetchTranscript" \notin Range(path[c])
         /\ SegmentWrites(c) = {}
         /\ c \notin Range(writeLog)
    /\ (pc[c] = "fetchTranscript" \/ "fetchTranscript" \in Range(path[c])) =>
         dbSegments[c] = Some(<<>>)

\* An invocation read stored rows and returned them.
C17_Witness ==
  \E c \in Calls :
    /\ ~IsNull(dbSegments[c]) /\ Len(Val(dbSegments[c])) > 0
    /\ Succeeded(c)
    /\ transcripts[videoId[c]] # <<>>

\* C18: what an invocation returns is either a success, with at least one
\* segment, an association and no error flag, or the unavailable result, with
\* no segment, error = true and a null association.
C18_ResultShape ==
  \A c \in Calls :
    Returned(c) =>
      IF "error" \in DOMAIN Val(result[c])
      THEN /\ Val(result[c]).error = TRUE
           /\ Val(result[c]).segments = <<>>
           /\ IsNull(Val(result[c]).userVideo)
      ELSE /\ Len(Val(result[c]).segments) >= 1
           /\ ~IsNull(Val(result[c]).userVideo)

\* One invocation returned segments from the store, another the unavailable result.
C18_Witness ==
  \E c1, c2 \in Calls :
    /\ Succeeded(c1) /\ TookHit(c1)
    /\ Returned(c2) /\ "error" \in DOMAIN Val(result[c2])

\* C19: every association is of a video that has at least one stored row, and
\* an invocation whose segment write raised has issued no association write.
C19_AssociationHasRows ==
  /\ \A i \in 1..Len(userVideos) : transcripts[userVideos[i].youtubeId] # <<>>
  /\ \A c \in Calls : failedAt[c] = Some("upsertSegments") => UserVideoWrites(c) = {}

\* The segment write of one invocation raised; another stored its segments and
\* then created the association.
C19_Witness ==
  \E c1, c2 \in Calls :
    /\ failedAt[c1] = Some("upsertSegments") /\ Returned(c1)
    /\ TookMiss(c2) /\ UserVideoWrites(c2) # {} /\ Returned(c2)
    /\ Len(userVideos) = 1

\* C20: no step sets the summary of an association back to the empty string
\* once it is not empty.
C20_SummaryNeverReset ==
  [][\A i \in 1..Len(userVideos) :
       userVideos[i].summary # "" => userVideos'[i].summary # ""]_vars

\* -------------------------------------------------- claims: the AI calls
LanguageSteps == {"lang_getCurrentUser", "lang_getPreferredLanguage"}
TrackingSteps == {"track_getCurrentUser", "trackGenerateTextUsage"}

\* C6: once usage tracking of generateQuickStartQuestions has raised (the user
\* lookup of the telemetry record included), that exception never leaves the
\* function, the function goes on to the persistence step or the return, and
\* what it returns is exactly the list the generation service produced. The
\* one exception that can still leave it is the persistence write's own.
C6_TrackingAbsorbed ==
  (aiFn = "questions" /\ aiRaised \cap TrackingSteps # {}) =>
    /\ aiPc \in {"updateQuickStartQuestions", "done", "threw"}
    /\ aiPc = "threw" => aiThrown = Some("updateQuickStartQuestions")
    /\ aiPc = "done" =>
         /\ IsNull(aiThrown)
         /\ \A qs \in {<<>>, <<"q1">>, <<"q1", "q2">>} :
              generation = Some(Some(qs)) => aiResult = Some(qs)
         /\ generation = Some(Null) => aiResult = Some(<<>>)

\* Tracking raised and the two generated questions were returned.
C6_Witness ==
  /\ aiFn = "questions"
  /\ "trackGenerateTextUsage" \in aiRaised
  /\ aiPc = "done"
  /\ aiResult = Some(<<"q1", "q2">>)

\* The language the claim expects: `id` only when the user was resolved, the
\* preference was read and is exactly `id`; `en` otherwise.
ExpectedLanguage ==
  IF ~IsNull(currentUser) /\ aiRaised \cap LanguageSteps = {} /\ preferredLanguage = Some("id")
  THEN "id" ELSE "en"

\* C7: in both functions language resolution never raises, and once it is over
\* the generation call is reached with a language in {en, id}: `id` only when
\* the user was resolved and the stored preference is exactly `id`, `en` in
\* every other case (no user, a storage error, "fr", "", null).
C7_LanguageResolved ==
  /\ IsNull(aiThrown) \/ Val(aiThrown) \notin LanguageSteps
  /\ (aiFn # "none" /\ aiPc \notin LanguageSteps) =>
       /\ handedLanguage = Some(ExpectedLanguage)
       /\ userLanguage = ExpectedLanguage
       /\ Val(handedLanguage) \in {"en", "id"}
       /\ aiPc = "threw" => Val(aiThrown) \in {"generateSummary", "generateObject",
                                               "updateQuickStartQuestions"}

\* A user whose stored preference is "fr" got a summary in `en`.
C7_Witness ==
  /\ aiFn = "summary"
  /\ ~IsNull(currentUser)
  /\ preferredLanguage = Some("fr")
  /\ aiPc = "done"
  /\ aiResult = Some(<<"summary", "en">>)

\* C8: when generateQuickStartQuestions has returned, the question list was
\* written exactly once, against the given id, if a userVideoId was given (0
\* included) and the list is not empty, and was not written otherwise.
C8_PersistIffProvided ==
  (aiFn = "questions" /\ aiPc = "done") =>
    IF ~IsNull(userVideoId) /\ Len(Val(aiResult)) > 0
    THEN questionWrites = <<[userVideoId |-> Val(userVideoId), questions |-> Val(aiResult)]>>
    ELSE questionWrites = <<>>

\* C9: the transcript body generateQuickStartQuestions puts in the prompt has
\* at most 6000 whitespace-delimited tokens, and never more than the
\* transcript itself, whatever the segment list.
C9_PromptBodyCapped ==
  (aiFn = "questions" /\ aiPc \notin LanguageSteps) =>
    /\ TokenCount(truncatedTranscript) <= 6000
    /\ TokenCount(truncatedTranscript) <= TokenCount(JoinTexts(transcriptSegments))

\* A transcript of more than 6000 tokens was cut to 6000.
C9_Witness ==
  /\ aiFn = "questions"
  /\ aiPc = "generateObject"
  /\ TokenCount(JoinTexts(transcriptSegments)) > 6000
  /\ TokenCount(truncatedTranscript) = 6000

\* C10 as stated: generateQuickStartQuestions never lets an exception out; when
\* the generation call fails it returns the empty list, and when the
\* persistence write fails it returns the generated list.
C10_Original ==
  aiFn = "questions" =>
    /\ aiPc # "threw"
    /\ "generateObject" \in aiRaised => (aiPc = "done" /\ aiResult = Some(<<>>))
    /\ "updateQuickStartQuestions" \in aiRaised =>
         (aiPc = "done" /\ aiResult = Some(QuestionsOf(Val(generation))))

\* C10 as amended: a failure of the generation call or of the persistence
\* write leaves generateQuickStartQuestions as that exception, with nothing
\* returned; no other exception leaves it; and the empty list is returned only
\* when the generation succeeded and produced no question.
C10_GenerationFailurePropagates ==
  aiFn = "questions" =>
    /\ "generateObject" \in aiRaised =>
         (aiPc = "threw" /\ aiThrown = Some("generateObject") /\ IsNull(aiResult)
            /\ questionWrites = <<>>)
    /\ "updateQuickStartQuestions" \in aiRaised =>
         (aiPc = "threw" /\ aiThrown = Some("updateQuickStartQuestions") /\ IsNull(aiResult)
            /\ questionWrites = <<>>)
    /\ aiPc = "threw" => Val(aiThrown) \in {"generateObject", "updateQuickStartQuestions"}
    /\ aiResult = Some(<<>>) => (generation = Some(Null) \/ generation = Some(Some(<<>>)))

\* The persistence write raised after the questions were generated.
C10_Witness ==
  /\ aiFn = "questions"
  /\ "updateQuickStartQuestions" \in aiRaised
  /\ aiPc = "threw"
  /\ generation = Some(Some(<<"q1">>))

\* ---------------------------------------------- claims: the normalization
Normalized == ~IsNull(normalized)
Entries == 1..Len(rawTranscript)
OffsetOf(i) == IF IsNull(rawTranscript[i].offset) THEN 0 ELSE rawTranscript[i].offset[1]
DurationOf(i) == IF IsNull(rawTranscript[i].duration) THEN 0 ELSE rawTranscript[i].duration[1]
EndOf(i) == OffsetOf(i) + DurationOf(i)

\* C12 as stated: every segment has start <= end in lexical order, for every
\* non-negative offset and duration, 24 hours and beyond included.
C12_Original ==
  Normalized =>
    \A i \in Entries : StrLeq(Val(normalized)[i].start, Val(normalized)[i].end)

\* C12 as amended: every segment whose offset and offset + duration fall in the
\* same 24-hour period has start <= end in lexical order.
C12_StartLeqEndSameDay ==
  Normalized =>
    \A i \in Entries :
      (OffsetOf(i) \div 86400 = EndOf(i) \div 86400) =>
        StrLeq(Val(normalized)[i].start, Val(normalized)[i].end)

\* An entry beyond 24 hours that ends in the period it starts in was normalized.
C12_Witness ==
  /\ Normalized
  /\ \E i \in Entries :
       /\ OffsetOf(i) = 90000 /\ DurationOf(i) = 2
       /\ Val(normalized)[i].start = <<"0", "1", ":", "0", "0", ":", "0", "0">>
       /\ Val(normalized)[i].end = <<"0", "1", ":", "0", "0", ":", "0", "2">>

\* C13: the isChapterStart flag of the segment at 0-based index i is true
\* exactly when the entry's text is shorter than 30 characters, does not
\* contain "segment", is not "N/A", and i = 0 or i mod 10 = 0.
C13_ChapterHeuristic ==
  Normalized =>
    \A i \in Entries :
      Val(normalized)[i].isChapterStart =
        (/\ Len(rawTranscript[i].text) < 30
         /\ \A j \in 1..(Len(rawTranscript[i].text) - 6) :
              SubSeq(rawTranscript[i].text, j, j + 6) # <<"s", "e", "g", "m", "e", "n", "t">>
         /\ rawTranscript[i].text # <<"N", "/", "A">>
         /\ ((i - 1) = 0 \/ (i - 1) % 10 = 0))

\* Of eleven entries, the short texts at index 0 and at index 10 are chapter
\* starts and the one at index 9 is not.
C13_Witness ==
  /\ Normalized
  /\ Len(rawTranscript) = 11
  /\ Val(normalized)[11].isChapterStart
  /\ ~Val(normalized)[10].isChapterStart
  /\ Val(normalized)[1].isChapterStart

\* C14: the output has the length and the order of the provider's list, and
\* the segment of the entry with offset o and duration d (0 when missing) has
\* start = format(o) and end = format(o + d).
C14_StartEndFormatted ==
  Normalized =>
    /\ Len(Val(normalized)) = Len(rawTranscript)
    /\ \A i \in Entries :
         /\ Val(normalized)[i].start = format(OffsetOf(i))
         /\ Val(normalized)[i].end = format(EndOf(i))
         /\ rawTranscript[i].text # Str_NA => Val(normalized)[i].text = rawTranscript[i].text

\* An entry with no offset and a duration of two seconds, behind another entry.
C14_Witness ==
  /\ Normalized
  /\ \E i \in Entries :
       /\ i > 1
       /\ IsNull(rawTranscript[i].offset) /\ rawTranscript[i].duration = Some(2)
       /\ Val(normalized)[i].start = <<"0", "0", ":", "0", "0", ":", "0", "0">>
       /\ Val(normalized)[i].end = <<"0", "0", ":", "0", "0", ":", "0", "2">>

\* C15: an entry whose text is "N/A" yields the text "Segment at " followed by
\* the short form of its start offset, and is no chapter start at any index;
\* every other entry keeps its text.
C15_Placeholder ==
  Normalized =>
    \A i \in Entries :
      IF rawTranscript[i].text = <<"N", "/", "A">>
      THEN /\ Val(normalized)[i].text = Str_SegmentAt \o formatTime(OffsetOf(i))
           /\ ~Val(normalized)[i].isChapterStart
      ELSE Val(normalized)[i].text = rawTranscript[i].text

\* "N/A" at index 0, five seconds in: "Segment at 0:05", no chapter start.
C15_Witness ==
  /\ Normalized
  /\ rawTranscript[1].text = Str_NA
  /\ rawTranscript[1].offset = Some(5)
  /\ Val(normalized)[1].text = Str_SegmentAt \o <<"0", ":", "0", "5">>
  /\ ~Val(normalized)[1].isChapterStart

\* ------------------------------------------ claims about fetchVideoDetails
\* The fields every result of fetchVideoDetails has.
DetailsFields ==
  {"title", "description", "channelTitle", "publishedAt", "thumbnails", "tags", "userVideo"}

IsPlaceholder(r, v) ==
  /\ r.title = "Video " \o v
  /\ r.channelTitle = "Unknown Channel"
  /\ r.tags = <<>>
  /\ r.userVideo = Null

\* C11: fetchVideoDetails never propagates an exception: when user resolution,
\* a repository call or the metadata provider call (a status that is not a
\* success) fails, it returns the placeholder result (title "Video <id>",
\* channelTitle "Unknown Channel", no tags, userVideo null), and every result
\* has the fields title, description, channelTitle, publishedAt, thumbnails,
\* tags and userVideo.
C11_DetailsNeverPropagates ==
  /\ detailsPc # "threw"
  /\ IsNull(detailsThrown)
  /\ detailsRaised # {} =>
       /\ detailsPc = "done"
       /\ IsPlaceholder(Val(detailsResult), detailsVideoId)
  /\ detailsPc = "done" =>
       /\ ~IsNull(detailsResult)
       /\ DetailsFields \subseteq DOMAIN Val(detailsResult)

\* The provider answered with a status that is not a success, and the call
\* returned the placeholder.
C11_Witness ==
  /\ detailsPc = "done"
  /\ ~IsNull(response) /\ ~Val(response).ok
  /\ "fetchVideoFromApi" \in detailsRaised
  /\ IsPlaceholder(Val(detailsResult), detailsVideoId)

================================================================
